---- MODULE Spec2Model ----
(***************************************************************************)
(* certificate-checker: validateCertificate (src/index.js), the batch run  *)
(* through async.map and the CLI formatter (src/unnamed/part_000).         *)
(*                                                                         *)
(* JavaScript objects are functions from property names to values; a       *)
(* property that is undefined is a name outside the function's DOMAIN.     *)
(***************************************************************************)
EXTENDS Integers, Sequences, FiniteSets, TLC

VARIABLES
    locations,   \* the caller's ordered list of location strings
    env,         \* env[i]: what the outside world serves for locations[i]
    options,     \* the RuleConfig handed to validate (empty: none given)
    argv,        \* the CLI options read by formatter
    pc,          \* pc[i]: where the i-th validateCertificate call stands
    rules,       \* rules[i]: the call's local `rules`
    acq,         \* acq[i]: the acquisition promise awaited by the call
    validation,  \* validation[i]: the call's local `validation`
    results,     \* async.map's results array
    completed,   \* indices in the order their iteratee callbacks ran
    mainpc,      \* the command handler: "idle", "mapping", "formatted"
    exitCode     \* process.exitCode (0 while unset)

vars == <<locations, env, options, argv, pc, rules, acq, validation,
          results, completed, mainpc, exitCode>>

----------------------------------------------------------------------------
\* Bounds of the model.

\* The longest list of locations a batch run is given.
MaxLocations == 2

----------------------------------------------------------------------------
\* JavaScript values.

Null == "null"
Undefined == "undefined"
NoObject == <<>>

Has(o, k) == k \in DOMAIN o

\* { ...a, ...b }: own properties of b replace those of a, one level deep.
Spread(a, b) ==
    [k \in (DOMAIN a) \cup (DOMAIN b) |-> IF k \in DOMAIN b THEN b[k] ELSE a[k]]

IsObject(v) == DOMAIN v # {}

Range(s) == {s[n] : n \in DOMAIN s}

----------------------------------------------------------------------------
\* Program constants.

defaultRules ==
    [expiration |-> [enabled |-> TRUE, level |-> "warning", days |-> 14],
     ocsp       |-> [enabled |-> TRUE, level |-> "error", failure |-> "info"],
     tls        |-> [enabled |-> TRUE, level |-> "warning"]]

httpsDefaults == [agent |-> FALSE, method |-> "HEAD", rejectUnauthorized |-> FALSE]

MsPerDay == 86400000

CurrentTls == "TLSv1.3"

----------------------------------------------------------------------------
\* Inputs: locations, certificates, peers, rule configurations.

\* A location is its prefix followed by the rest of the string.
UrlLocations == {<<"https://", "ok.test/">>, <<"https://", "selfsigned.test/">>}
PathLocations == {<<"/", "etc/expired.crt">>, <<"/", "etc/missing.crt">>}
BareLocations == {<<"old.test">>, <<"refused.test">>, <<"silent.test">>}

startsWith(location, prefix) == location[1] = prefix

\* A distinguished name is its lines, one component each; <<>> is an absent
\* (undefined or empty) name.
CnOnly == <<[k |-> "CN", v |-> "ok.test"]>>
OrgThenCn == <<[k |-> "O", v |-> "Acme"], [k |-> "CN", v |-> "ok.test"]>>
CnThenOrg == <<[k |-> "CN", v |-> "ok.test"], [k |-> "O", v |-> "Acme"]>>
OrgOnly == <<[k |-> "O", v |-> "Acme"]>>

SubjectSet == {<<>>, OrgOnly, OrgThenCn, CnThenOrg}
IssuerSet == {<<>>, OrgOnly, OrgThenCn}

\* validTo.getTime() - Date.now(), in milliseconds.
MsLeftSet == {-1, 15 * MsPerDay - 1, 15 * MsPerDay}

VersionSet == {"TLSv1.3", "TLSv1.2"}
OcspOutcomes == {"good", "revoked", "throw"}

Certificates ==
    {c \in [subject : SubjectSet, issuer : IssuerSet, infoAccess : BOOLEAN,
            msLeft : MsLeftSet, ocsp : OcspOutcomes] :
        c.infoAccess \/ c.ocsp = "good"}

NoCertificate ==
    [subject |-> <<>>, issuer |-> <<>>, infoAccess |-> FALSE, msLeft |-> -1,
     ocsp |-> "good"]

\* A host: the peer answers the request, fails it, or stays silent.
HostEnvs ==
    {[kind |-> "host", peer |-> "response", authorized |-> a, version |-> t,
      failure |-> Null, certificate |-> c] :
        a \in BOOLEAN, t \in VersionSet, c \in Certificates}
    \cup
    {[kind |-> "host", peer |-> p, authorized |-> FALSE, version |-> CurrentTls,
      failure |-> "connect ECONNREFUSED", certificate |-> NoCertificate] :
        p \in {"error", "silent"}}

\* A file: it is read and parsed, or the read or the parse fails.
FileEnvs ==
    {[kind |-> "file", peer |-> "response", authorized |-> FALSE,
      version |-> CurrentTls, failure |-> Null, certificate |-> c] :
        c \in Certificates}
    \cup
    {[kind |-> "file", peer |-> "error", authorized |-> FALSE,
      version |-> CurrentTls, failure |-> f, certificate |-> NoCertificate] :
        f \in {"ENOENT: no such file or directory", "error:0480006C:PEM routines::no start line"}}

EnvsFor(location) ==
    IF startsWith(location, "https://") THEN HostEnvs
    ELSE IF startsWith(location, "/") THEN FileEnvs
    ELSE HostEnvs

\* Rule configurations a caller of validate may pass.
Levels == {"error", "warning", "info"}

PartialOptions ==
    {[expiration |-> [days |-> 7]],
     [ocsp |-> [level |-> "warning"]],
     [tls |-> [enabled |-> FALSE]],
     [expiration |-> [enabled |-> FALSE], ocsp |-> [enabled |-> FALSE],
      tls |-> [enabled |-> FALSE]]}

FullOptions ==
    {[expiration |-> [enabled |-> TRUE, level |-> le, days |-> 14],
      ocsp |-> [enabled |-> TRUE, level |-> lo, failure |-> lf],
      tls |-> [enabled |-> TRUE, level |-> lt]] :
        le \in Levels, lo \in Levels, lf \in Levels, lt \in Levels}

NoOptions == NoObject

OptionSet == {NoOptions} \cup PartialOptions \cup FullOptions

\* The CLI flags formatter reads (yargs gives both a value).
ArgvSet == [exitCode : BOOLEAN, failOnWarnings : BOOLEAN]

----------------------------------------------------------------------------
\* index.js: pure parts.

\* rules?.<rule>?.enabled, as a condition.
RuleEnabled(r, rule) ==
    Has(r, rule) /\ Has(r[rule], "enabled") /\ r[rule].enabled = TRUE

\* rules?.<rule>?.<field> for the string-valued fields.
RuleLevel(r, rule, field) ==
    IF Has(r, rule) /\ Has(r[rule], field) THEN r[rule][field] ELSE Undefined

\* const rules = { ...defaultRules, ...options }
MergeRules(opts) == Spread(defaultRules, opts)

\* Math.floor((validTo.getTime() - Date.now()) / 86400000)
checkCertificateDates(certificate) == certificate.msLeft \div MsPerDay

\* subjectRegExp = /CN=(.*)$/u against the name's text: `.` stops at a line
\* break and `$` is the end of the text, so only the last line can match.
\* The result is <<capture>>, or <<>> for no match.
subjectRegExpMatch(name) ==
    IF name # <<>> /\ name[Len(name)].k = "CN" THEN <<name[Len(name)].v>> ELSE <<>>

HasCnComponent(name) == \E n \in DOMAIN name : name[n].k = "CN"

\* What getFileCertificate resolves with.
FileData(e) ==
    [type |-> "file",
     certificate |-> e.certificate,
     daysRemaining |-> checkCertificateDates(e.certificate)]

\* What getHostCertificate's response callback resolves with.
HostData(e) ==
    [type |-> "host",
     authorizationError |-> IF e.authorized THEN Null ELSE "SELF_SIGNED_CERT_IN_CHAIN",
     authorized |-> e.authorized,
     certificate |-> e.certificate,
     cipher |-> [version |-> e.version],
     daysRemaining |-> checkCertificateDates(e.certificate)]

Pending == [state |-> "pending"]
Resolved(data) == [state |-> "resolved", data |-> data]
Rejected(message) == [state |-> "rejected", message |-> message]

\* The events the request can emit for a peer: the response, a socket error,
\* and 'timeout' only when the request options carry a timeout.
RequestEvents(e) ==
    IF e.peer = "silent"
    THEN (IF Has(httpsDefaults, "timeout") THEN {"timeout"} ELSE {})
    ELSE {e.peer}

\* getHostCertificate's handlers: the response callback, req.on('error') and
\* req.on('timeout').
OnRequestEvent(event, e) ==
    IF event = "response" THEN Resolved(HostData(e))
    ELSE IF event = "error" THEN Rejected(e.failure)
    ELSE Rejected("Connection to host timed out")

\* getFileCertificate: readFile, then new X509Certificate(data).
OnFileRead(e) ==
    IF e.peer = "response" THEN Resolved(FileData(e)) ELSE Rejected(e.failure)

\* annotate with `validation.valid = false` left out of the error branch.
annotateKeepsValid(v, level, message) ==
    IF level = "error"
    THEN [v EXCEPT !.errors = Append(@, message)]
    ELSE IF level = "warning"
    THEN [v EXCEPT !.warnings = Append(@, message)]
    ELSE [v EXCEPT !.info = Append(@, message)]

annotate(v, level, message) ==
    IF level = "error"
    THEN [v EXCEPT !.valid = FALSE, !.errors = Append(@, message)]
    ELSE IF level = "warning"
    THEN [v EXCEPT !.warnings = Append(@, message)]
    ELSE [v EXCEPT !.info = Append(@, message)]

NoOcsp == [status |-> Null]

\* validation = { type: data.type, location, valid: true, ... }
NewValidation(location, data) ==
    Spread([type |-> data.type,
            location |-> location,
            valid |-> TRUE,
            status |-> "ok",
            cname |-> Null,
            issuer |-> Null,
            daysRemaining |-> data.daysRemaining,
            ocsp |-> NoOcsp,
            errors |-> <<>>,
            warnings |-> <<>>,
            info |-> <<>>],
           IF Has(data, "cipher") THEN [cipher |-> data.cipher] ELSE NoObject)

NoCommonName == "Certificate doesn't contain a common name"
NoSubject == "Certificate doesn't contain a subject"
NoIssuer == "Certificate doesn't contain an issuer"
Revoked == "Certificate has been revoked"

\* if (typeof data.authorized !== 'undefined') { ... }
ApplyTrust(v, data) ==
    IF Has(data, "authorized")
    THEN IF data.authorized
         THEN [v EXCEPT !.valid = TRUE]
         ELSE [v EXCEPT !.valid = FALSE, !.errors = Append(@, data.authorizationError)]
    ELSE v

\* if (data.certificate.subject) { ... } else { ... }
ApplySubject(v, data) ==
    LET m == subjectRegExpMatch(data.certificate.subject) IN
    IF data.certificate.subject # <<>>
    THEN IF m # <<>>
         THEN [v EXCEPT !.cname = m[1]]
         ELSE [v EXCEPT !.valid = FALSE, !.errors = Append(@, NoCommonName)]
    ELSE [v EXCEPT !.valid = FALSE, !.errors = Append(@, NoSubject)]

\* if (data.certificate.issuer) { ... }
ApplyIssuer(v, data) ==
    LET m == subjectRegExpMatch(data.certificate.issuer) IN
    IF data.certificate.issuer # <<>>
    THEN IF m # <<>>
         THEN [v EXCEPT !.issuer = m[1]]
         ELSE [v EXCEPT !.valid = FALSE, !.errors = Append(@, NoIssuer)]
    ELSE v

\* Inspect with the transport's verdict assigned after the identity checks.
InspectTrustLast(location, data) ==
    ApplyTrust(ApplyIssuer(ApplySubject(NewValidation(location, data), data), data), data)

\* The verdict as built and checked up to the OCSP step.
Inspect(location, data) ==
    ApplyIssuer(ApplySubject(ApplyTrust(NewValidation(location, data), data), data), data)

\* rules?.ocsp?.enabled && data.certificate?.infoAccess
OcspWanted(r, data) == RuleEnabled(r, "ocsp") /\ data.certificate.infoAccess

\* getCertStatus resolved: validation.ocsp = ocspResult; revoked is annotated.
OcspResolved(v, r, status) ==
    LET w == [v EXCEPT !.ocsp = [status |-> status]] IN
    IF status = "revoked" THEN annotate(w, RuleLevel(r, "ocsp", "level"), Revoked) ELSE w

OcspFailureMessage(message) == "OCSP validation failure: " \o message

\* The inner catch annotating at rules.ocsp.level.
OcspRejectedAtLevel(v, r, message) ==
    annotate(v, RuleLevel(r, "ocsp", "level"), OcspFailureMessage(message))

\* getCertStatus threw: the inner catch.
OcspRejected(v, r, message) ==
    annotate(v, RuleLevel(r, "ocsp", "failure"), OcspFailureMessage(message))

ExpirationMessage(r) ==
    "Certificate expires within "
        \o (IF Has(r.expiration, "days") THEN ToString(r.expiration.days) ELSE Undefined)
        \o " days"

TlsMessage(version) ==
    "Outdated TLS, using version " \o version \o " instead of TLSv1.3"

\* The expiration test with < in place of <=.
ExpirationFiresStrict(v, r) ==
    /\ RuleEnabled(r, "expiration")
    /\ Has(r.expiration, "days")
    /\ v.daysRemaining < r.expiration.days

\* rules?.expiration?.enabled && validation.daysRemaining <= rules?.expiration?.days
ExpirationFires(v, r) ==
    /\ RuleEnabled(r, "expiration")
    /\ Has(r.expiration, "days")
    /\ v.daysRemaining <= r.expiration.days

ApplyExpiration(v, r) ==
    IF ExpirationFires(v, r)
    THEN annotate(v, RuleLevel(r, "expiration", "level"), ExpirationMessage(r))
    ELSE v

\* rules?.tls?.enabled && validation.cipher, then the version test.
ApplyTls(v, r) ==
    IF RuleEnabled(r, "tls") /\ Has(v, "cipher") /\ v.cipher.version # CurrentTls
    THEN annotate(v, RuleLevel(r, "tls", "level"), TlsMessage(v.cipher.version))
    ELSE v

\* if (validation.valid) { expiration; tls; status } else { status = 'invalid' }
Finish(v, r) ==
    IF v.valid
    THEN LET w == ApplyTls(ApplyExpiration(v, r), r) IN
         IF Len(w.warnings) > 0 THEN [w EXCEPT !.status = "warning"] ELSE w
    ELSE [v EXCEPT !.status = "invalid"]

\* The outer catch returning the message as `reason`.
CatchVerdictReason(v, location, message) ==
    IF IsObject(v)
    THEN [v EXCEPT !.valid = FALSE, !.errors = Append(@, message)]
    ELSE [valid |-> FALSE, location |-> location, reason |-> message]

\* The outer catch.
CatchVerdict(v, location, message) ==
    IF IsObject(v)
    THEN [v EXCEPT !.valid = FALSE, !.errors = Append(@, message)]
    ELSE [valid |-> FALSE, location |-> location, errors |-> <<message>>]

----------------------------------------------------------------------------
\* The CLI (part_000).

\* result.warnings?.length
WarningsLength(result) == IF Has(result, "warnings") THEN Len(result.warnings) ELSE 0

\* The loop body assigning the exit code on every turn.
FormatterStepLastWins(code, result, opts) ==
    IF ~result.valid /\ opts.exitCode THEN 1
    ELSE IF WarningsLength(result) > 0 /\ opts.failOnWarnings THEN 1
    ELSE 0

\* One turn of formatter's first loop.
FormatterStep(code, result, opts) ==
    IF ~result.valid /\ opts.exitCode THEN 1
    ELSE IF WarningsLength(result) > 0 /\ opts.failOnWarnings THEN 1
    ELSE code

\* formatter's first loop over results, from process.exitCode = code.
RECURSIVE formatter(_, _, _)
formatter(code, rs, opts) ==
    IF rs = <<>> THEN code
    ELSE formatter(FormatterStep(code, Head(rs), opts), Tail(rs), opts)

\* The callback storing each verdict in the first free slot.
MapStoreInCompletionOrder(rs, index, v) ==
    LET free == {n \in DOMAIN rs : ~IsObject(rs[n])} IN
    [rs EXCEPT ![CHOOSE n \in free : \A m \in free : n <= m] = v]

\* async.map's iteratee callback: results[index] = v.
MapStore(rs, index, v) == [rs EXCEPT ![index] = v]

----------------------------------------------------------------------------
\* The state machine.

Tasks == DOMAIN locations

\* Before validate is called on the locations.
InitWith(locs, envs, opts, args) ==
    /\ locations = locs
    /\ env = envs
    /\ options = opts
    /\ argv = args
    /\ pc = [i \in DOMAIN locs |-> "idle"]
    /\ rules = [i \in DOMAIN locs |-> NoObject]
    /\ acq = [i \in DOMAIN locs |-> [state |-> "none"]]
    /\ validation = [i \in DOMAIN locs |-> NoObject]
    /\ results = [i \in DOMAIN locs |-> NoObject]
    /\ completed = <<>>
    /\ mainpc = "idle"
    /\ exitCode = 0

\* One location per kind, for a direct call of validate.
CallLocations == {<<"https://", "ok.test/">>, <<"/", "etc/expired.crt">>, <<"old.test">>}

\* A caller of the module calls validate(location, options).
Init ==
    \E l \in CallLocations : \E e \in EnvsFor(l) : \E o \in OptionSet :
        InitWith(<<l>>, <<e>>, o, [exitCode |-> TRUE, failOnWarnings |-> FALSE])

\* validate is called on every location, each call running to its first
\* await: rules are merged and the certificate is asked for.
Start ==
    /\ mainpc = "idle"
    /\ mainpc' = "mapping"
    /\ pc' = [i \in Tasks |-> "acquire"]
    /\ rules' = [i \in Tasks |-> MergeRules(options)]
    /\ acq' = [i \in Tasks |-> Pending]
    /\ UNCHANGED <<locations, env, options, argv, validation, results,
                   completed, exitCode>>

\* The request of call i emits an event and its handler settles the promise.
RequestEvent(i) ==
    /\ env[i].kind = "host"
    /\ acq[i].state = "pending"
    /\ \E event \in RequestEvents(env[i]) :
          acq' = [acq EXCEPT ![i] = OnRequestEvent(event, env[i])]
    /\ UNCHANGED <<locations, env, options, argv, pc, rules, validation,
                   results, completed, mainpc, exitCode>>

\* The file of call i is read and parsed, or one of the two fails.
FileRead(i) ==
    /\ env[i].kind = "file"
    /\ acq[i].state = "pending"
    /\ acq' = [acq EXCEPT ![i] = OnFileRead(env[i])]
    /\ UNCHANGED <<locations, env, options, argv, pc, rules, validation,
                   results, completed, mainpc, exitCode>>

\* Call i resumes after `await get...Certificate(...)`: a rejection goes to
\* the outer catch; data is inspected, and the call either awaits
\* getCertStatus or runs on to its return.
Resume(i) ==
    /\ pc[i] = "acquire"
    /\ acq[i].state \in {"resolved", "rejected"}
    /\ IF acq[i].state = "rejected"
       THEN /\ validation' = [validation EXCEPT
                                 ![i] = CatchVerdict(validation[i], locations[i], acq[i].message)]
            /\ pc' = [pc EXCEPT ![i] = "returned"]
       ELSE LET v == Inspect(locations[i], acq[i].data) IN
            IF OcspWanted(rules[i], acq[i].data)
            THEN /\ validation' = [validation EXCEPT ![i] = v]
                 /\ pc' = [pc EXCEPT ![i] = "ocsp"]
            ELSE /\ validation' = [validation EXCEPT ![i] = Finish(v, rules[i])]
                 /\ pc' = [pc EXCEPT ![i] = "returned"]
    /\ UNCHANGED <<locations, env, options, argv, rules, acq, results,
                   completed, mainpc, exitCode>>

OcspErrorMessage == "OCSP request timed out"

\* The verdict after `await getCertStatus(...)` settled, before the rules
\* that follow the OCSP step.
AfterOcsp(v, r, outcome) ==
    IF outcome = "throw"
    THEN OcspRejected(v, r, OcspErrorMessage)
    ELSE OcspResolved(v, r, outcome)

\* Call i resumes after `await getCertStatus(...)` and runs on to its return.
OcspSettle(i) ==
    /\ pc[i] = "ocsp"
    /\ validation' = [validation EXCEPT
          ![i] = Finish(AfterOcsp(validation[i], rules[i], env[i].certificate.ocsp), rules[i])]
    /\ pc' = [pc EXCEPT ![i] = "returned"]
    /\ UNCHANGED <<locations, env, options, argv, rules, acq, results,
                   completed, mainpc, exitCode>>

NextValidate ==
    \/ Start
    \/ \E i \in Tasks : RequestEvent(i)
    \/ \E i \in Tasks : FileRead(i)
    \/ \E i \in Tasks : Resume(i)
    \/ \E i \in Tasks : OcspSettle(i)

Spec == Init /\ [][NextValidate]_vars

----------------------------------------------------------------------------
\* The batch run of the CLI: async.map(argv.locations, validate), then
\* formatter(results, argv).

GoodCertificate ==
    [subject |-> OrgThenCn, issuer |-> OrgThenCn, infoAccess |-> TRUE,
     msLeft |-> 15 * MsPerDay, ocsp |-> "good"]

Served(a, t, c) ==
    [kind |-> "host", peer |-> "response", authorized |-> a, version |-> t,
     failure |-> Null, certificate |-> c]

\* What each location of a batch run serves.
World(l) ==
    CASE l = <<"https://", "ok.test/">> ->
            Served(TRUE, "TLSv1.3", GoodCertificate)
      [] l = <<"https://", "selfsigned.test/">> ->
            Served(FALSE, "TLSv1.3", [GoodCertificate EXCEPT !.infoAccess = FALSE])
      [] l = <<"old.test">> ->
            Served(TRUE, "TLSv1.2",
                   [GoodCertificate EXCEPT !.infoAccess = FALSE, !.msLeft = 15 * MsPerDay - 1])
      [] l = <<"refused.test">> ->
            [kind |-> "host", peer |-> "error", authorized |-> FALSE,
             version |-> CurrentTls, failure |-> "connect ECONNREFUSED",
             certificate |-> NoCertificate]
      [] l = <<"silent.test">> ->
            [kind |-> "host", peer |-> "silent", authorized |-> FALSE,
             version |-> CurrentTls, failure |-> "connect ECONNREFUSED",
             certificate |-> NoCertificate]
      [] l = <<"/", "etc/expired.crt">> ->
            [kind |-> "file", peer |-> "response", authorized |-> FALSE,
             version |-> CurrentTls, failure |-> Null,
             certificate |-> [GoodCertificate EXCEPT !.msLeft = -1, !.ocsp = "throw"]]
      [] l = <<"/", "etc/missing.crt">> ->
            [kind |-> "file", peer |-> "error", authorized |-> FALSE,
             version |-> CurrentTls, failure |-> "ENOENT: no such file or directory",
             certificate |-> NoCertificate]

BatchLocations == UrlLocations \cup PathLocations \cup BareLocations

LocationLists ==
    UNION {[1..n -> BatchLocations] : n \in 1..MaxLocations}

\* `certificate-checker check <locations...>`: validate gets no options.
InitBatch ==
    \E locs \in LocationLists : \E args \in ArgvSet :
        InitWith(locs, [i \in DOMAIN locs |-> World(locs[i])], NoOptions, args)

\* Call i has returned its verdict and async.map's callback stores it.
Collect(i) ==
    /\ pc[i] = "returned"
    /\ results' = MapStore(results, i, validation[i])
    /\ completed' = Append(completed, i)
    /\ pc' = [pc EXCEPT ![i] = "collected"]
    /\ UNCHANGED <<locations, env, options, argv, rules, acq, validation,
                   mainpc, exitCode>>

\* Every callback has run: async.map resolves and formatter sets the exit code.
Format ==
    /\ mainpc = "mapping"
    /\ \A i \in Tasks : pc[i] = "collected"
    /\ exitCode' = formatter(exitCode, results, argv)
    /\ mainpc' = "formatted"
    /\ UNCHANGED <<locations, env, options, argv, pc, rules, acq, validation,
                   results, completed>>

NextBatch ==
    \/ Start
    \/ \E i \in Tasks : RequestEvent(i)
    \/ \E i \in Tasks : FileRead(i)
    \/ \E i \in Tasks : Resume(i)
    \/ \E i \in Tasks : OcspSettle(i)
    \/ \E i \in Tasks : Collect(i)
    \/ Format

\* The event loop runs a handler whenever one is ready, and a peer or file
\* system that is going to answer does answer.
BatchSpec == InitBatch /\ [][NextBatch]_vars /\ WF_vars(NextBatch)

----------------------------------------------------------------------------
\* Properties.

Returned(i) == pc[i] = "returned"

Acquired(i) == acq[i].state = "resolved"

AcquisitionFailed(i) == acq[i].state = "rejected"

\* Call i awaited getCertStatus and it threw.
OcspThrew(i) ==
    /\ Acquired(i)
    /\ OcspWanted(rules[i], acq[i].data)
    /\ env[i].certificate.ocsp = "throw"

RECURSIVE Count(_, _)
Count(x, s) == IF s = <<>> THEN 0 ELSE (IF Head(s) = x THEN 1 ELSE 0) + Count(x, Tail(s))

\* C1: in every verdict validateCertificate returns, valid is false exactly
\* when the errors list is non-empty.
C1_ValidIffNoErrors ==
    \A i \in Tasks :
        Returned(i) => (validation[i].valid = FALSE <=> Len(validation[i].errors) > 0)

\* A certificate that passed trust, identity and OCSP is made invalid by the
\* expiration rule at level error, its message being the only error.
C1_Witness ==
    \E i \in Tasks :
        /\ Returned(i)
        /\ Acquired(i)
        /\ RuleLevel(rules[i], "expiration", "level") = "error"
        /\ validation[i].valid = FALSE
        /\ validation[i].errors = <<ExpirationMessage(rules[i])>>

DerivedStatus(v) ==
    IF ~v.valid THEN "invalid"
    ELSE IF WarningsLength(v) > 0 THEN "warning"
    ELSE "ok"

\* C2: every returned verdict, the one after an acquisition failure included,
\* carries status 'invalid' when valid is false, else 'warning' when warnings
\* is non-empty, else 'ok'.
C2_StatusDerived ==
    \A i \in Tasks :
        Returned(i) =>
            /\ Has(validation[i], "status")
            /\ validation[i].status = DerivedStatus(validation[i])

\* C3: once every callback of the batch has run, results holds one verdict
\* per location and the verdict at index i is the one for the i-th location,
\* whatever the order of completion.
C3_ResultsInInputOrder ==
    (\A i \in Tasks : pc[i] = "collected") =>
        /\ DOMAIN results = DOMAIN locations
        /\ \A i \in Tasks :
              /\ IsObject(results[i])
              /\ results[i].location = locations[i]
              /\ results[i] = validation[i]

\* Two different locations, the second completing first.
C3_Witness ==
    /\ mainpc = "formatted"
    /\ Len(locations) >= 2
    /\ locations[1] # locations[2]
    /\ completed[1] = 2

\* C4 as stated: every failure raised during acquisition or after the
\* verdict was built ends in errors with valid = false, and an acquisition
\* failure is the sole error.
C4_EveryFailureIsAnError ==
    \A i \in Tasks :
        Returned(i) =>
            /\ AcquisitionFailed(i) =>
                  /\ validation[i].valid = FALSE
                  /\ validation[i].errors = <<acq[i].message>>
            /\ OcspThrew(i) =>
                  /\ validation[i].valid = FALSE
                  /\ OcspFailureMessage(OcspErrorMessage) \in Range(validation[i].errors)

\* Where a message annotated at `level` ends up.
ListFor(v, level) ==
    IF level = "error" THEN v.errors
    ELSE IF level = "warning" THEN v.warnings
    ELSE v.info

\* C4, amended: a call always returns a verdict. After an acquisition failure
\* it is exactly { valid: false, location, errors: [message] }. A failure of
\* getCertStatus is caught as well, but its message is recorded at the
\* ocsp.failure level: in errors, with valid = false, only when that level
\* is 'error', and in warnings or info otherwise.
C4_FailuresAreFolded ==
    \A i \in Tasks :
        Returned(i) =>
            /\ AcquisitionFailed(i) =>
                  validation[i] = [valid |-> FALSE, location |-> locations[i],
                                   errors |-> <<acq[i].message>>]
            /\ OcspThrew(i) =>
                  LET level == RuleLevel(rules[i], "ocsp", "failure")
                      m == OcspFailureMessage(OcspErrorMessage)
                  IN /\ m \in Range(ListFor(validation[i], level))
                     /\ level = "error" => validation[i].valid = FALSE
                     /\ level # "error" => m \notin Range(validation[i].errors)

\* A file that cannot be read comes back as a verdict.
C4_Witness ==
    \E i \in Tasks :
        /\ Returned(i)
        /\ AcquisitionFailed(i)
        /\ env[i].kind = "file"
        /\ validation[i].errors = <<"ENOENT: no such file or directory">>

\* Call i takes the step that resumes it after getCertStatus threw.
OcspThrowStep(i) ==
    /\ pc[i] = "ocsp"
    /\ pc'[i] = "returned"
    /\ env[i].certificate.ocsp = "throw"

C6_EveryValidationReturns ==
    (mainpc = "mapping") ~>
        (\A i \in Tasks :
            /\ acq[i].state \in {"resolved", "rejected"}
            /\ pc[i] = "collected")

\* C7: the rules a call uses hold, for every field of every default rule,
\* the caller's value when the caller gave one and the default otherwise.
C7_PartialOverrideKeepsDefaults ==
    \A i \in Tasks :
        pc[i] # "idle" =>
            \A rule \in DOMAIN defaultRules :
                \A f \in DOMAIN defaultRules[rule] :
                    /\ Has(rules[i], rule)
                    /\ Has(rules[i][rule], f)
                    /\ rules[i][rule][f] =
                          IF Has(options, rule) /\ Has(options[rule], f)
                          THEN options[rule][f]
                          ELSE defaultRules[rule][f]

Invalid(v) == v.valid = FALSE /\ v.status = "invalid"

\* C8: under every RuleConfig, a chain the transport does not authorize, an
\* absent subject, a subject without a CN= component and a present issuer
\* without a CN= component each give valid = false, status 'invalid' and
\* their message in errors.
C8_StructuralFailuresAreFatal ==
    \A i \in Tasks :
        Returned(i) /\ Acquired(i) =>
            LET d == acq[i].data
                v == validation[i]
            IN /\ (Has(d, "authorized") /\ ~d.authorized) =>
                      Invalid(v) /\ d.authorizationError \in Range(v.errors)
               /\ d.certificate.subject = <<>> =>
                      Invalid(v) /\ NoSubject \in Range(v.errors)
               /\ (d.certificate.subject # <<>> /\ ~HasCnComponent(d.certificate.subject)) =>
                      Invalid(v) /\ NoCommonName \in Range(v.errors)
               /\ (d.certificate.issuer # <<>> /\ ~HasCnComponent(d.certificate.issuer)) =>
                      Invalid(v) /\ NoIssuer \in Range(v.errors)

\* An authorized host whose certificate has no subject, checked with every
\* rule disabled.
C8_Witness ==
    \E i \in Tasks :
        /\ Returned(i)
        /\ Acquired(i)
        /\ ~RuleEnabled(rules[i], "expiration")
        /\ ~RuleEnabled(rules[i], "ocsp")
        /\ ~RuleEnabled(rules[i], "tls")
        /\ Has(acq[i].data, "authorized")
        /\ acq[i].data.authorized
        /\ validation[i].errors = <<NoSubject>>
        /\ validation[i].status = "invalid"

\* The verdict of call i as it stood when the expiration rule was reached.
BeforeExpiration(i) ==
    LET d == acq[i].data
        v == Inspect(locations[i], d)
    IN IF OcspWanted(rules[i], d)
       THEN AfterOcsp(v, rules[i], env[i].certificate.ocsp)
       ELSE v

\* C9: under the default rules, a verdict still valid after trust, identity
\* and OCSP gets exactly one expiration message in warnings when
\* daysRemaining <= 14, negative values included, stays valid with errors
\* empty and has status 'warning'; when daysRemaining > 14 it gets none.
C9_ExpirationIsWarningOnly ==
    \A i \in Tasks :
        (Returned(i) /\ Acquired(i) /\ rules[i] = defaultRules /\ BeforeExpiration(i).valid) =>
            LET v == validation[i]
                m == "Certificate expires within 14 days"
            IN /\ Count(m, BeforeExpiration(i).warnings) = 0
               /\ Count(m, v.errors) + Count(m, v.info) = 0
               /\ IF v.daysRemaining <= 14
                  THEN /\ Count(m, v.warnings) = 1
                       /\ v.valid = TRUE
                       /\ v.errors = <<>>
                       /\ v.status = "warning"
                  ELSE Count(m, v.warnings) = 0

\* An expired certificate file, still valid, with the one warning.
C9_Witness ==
    \E i \in Tasks :
        /\ Returned(i)
        /\ Acquired(i)
        /\ rules[i] = defaultRules
        /\ validation[i].type = "file"
        /\ validation[i].daysRemaining < 0
        /\ validation[i].valid = TRUE
        /\ validation[i].warnings = <<"Certificate expires within 14 days">>
        /\ validation[i].status = "warning"

RECURSIVE Reverse(_)
Reverse(s) == IF s = <<>> THEN <<>> ELSE Append(Reverse(Tail(s)), Head(s))

\* C10: after formatter has run, the exit code is non-zero exactly when
\* exit-code is on and some verdict is invalid, or fail-on-warnings is on and
\* some verdict has warnings; the verdicts in reverse order give the same.
C10_ExitCode ==
    mainpc = "formatted" =>
        /\ exitCode # 0 <=>
              \/ argv.exitCode /\ \E i \in Tasks : ~results[i].valid
              \/ argv.failOnWarnings /\ \E i \in Tasks : WarningsLength(results[i]) > 0
        /\ formatter(0, Reverse(results), argv) = exitCode

\* Only fail-on-warnings is on, the first verdict has warnings and the last
\* one is clean.
C10_Witness ==
    /\ mainpc = "formatted"
    /\ ~argv.exitCode
    /\ argv.failOnWarnings
    /\ Len(results) >= 2
    /\ WarningsLength(results[1]) > 0
    /\ results[Len(results)].valid
    /\ WarningsLength(results[Len(results)]) = 0
    /\ exitCode = 1

\* The lists of a verdict that hold the TLS-version message.
TlsMessageCount(v) ==
    LET m == TlsMessage("TLSv1.2")
    IN Count(m, v.errors) + Count(m, v.warnings) + Count(m, v.info)

\* The verdict of call i as it stood when the TLS rule's line was reached or
\* skipped: after the expiration rule when the verdict was valid at the
\* validity test, as it was otherwise.
BeforeTls(i) ==
    IF BeforeExpiration(i).valid
    THEN ApplyExpiration(BeforeExpiration(i), rules[i])
    ELSE BeforeExpiration(i)

\* C11: under every RuleConfig, a verdict whose valid is already false when
\* the TLS rule is reached (the expiration rule may just have set it) gets no
\* TLS-version message, a file-kind verdict never gets one, and a message
\* annotated at level 'warning' goes to warnings and leaves valid unchanged.
C11_TlsOnlyWhileValid ==
    \A i \in Tasks :
        (Returned(i) /\ Acquired(i)) =>
            LET v == validation[i]
                b == BeforeTls(i)
            IN /\ ~b.valid => TlsMessageCount(v) = 0
               /\ v.type = "file" => TlsMessageCount(v) = 0
               /\ (TlsMessageCount(v) > 0 /\ RuleLevel(rules[i], "tls", "level") = "warning") =>
                     /\ Count(TlsMessage("TLSv1.2"), v.warnings) = 1
                     /\ v.valid = b.valid

\* The parts of C11 that do not depend on the verdict staying valid through
\* the expiration rule.
C11_TlsHostOnlyAndWarning ==
    \A i \in Tasks :
        (Returned(i) /\ Acquired(i)) =>
            LET v == validation[i]
                b == BeforeTls(i)
            IN /\ ~BeforeExpiration(i).valid => TlsMessageCount(v) = 0
               /\ v.type = "file" => TlsMessageCount(v) = 0
               /\ (TlsMessageCount(v) > 0 /\ RuleLevel(rules[i], "tls", "level") = "warning") =>
                     /\ Count(TlsMessage("TLSv1.2"), v.warnings) = 1
                     /\ v.valid = b.valid

====
